---- MODULE Spec2Model ----
(***************************************************************************)
(* RustGenerator::Generate (compiler/rust/generator.cc): one pass of the   *)
(* Rust code generator over one .proto file.  The pass parses the options, *)
(* opens the .rs output, declares the submodules of the crate (primary     *)
(* file only), opens and header-stamps the C++ thunks output (cpp kernel   *)
(* only), re-exports the types of publicly imported files and finally      *)
(* emits every message and every enum of the file.                         *)
(***************************************************************************)
EXTENDS Integers, Sequences, FiniteSets, TLC

VARIABLES
  file,                       \* Generate's `file` argument
  parameter,                  \* Generate's `parameter` argument
  parsed_files,               \* what generator_context->ListParsedFiles yields
  deps,                       \* the descriptor graph: deps[f] = imports of f, in order
  pc,                         \* position of the pass inside Generate
  opts,                       \* absl::StatusOr<Options> opts
  files_in_current_crate,     \* local vector of Generate
  import_path_to_crate_name,  \* absl::StatusOr<flat_hash_map> of Generate
  modules,                    \* module path handed to the Context
  ctx_without_printer,        \* Context ctx_without_printer
  ctx,                        \* Context ctx, bound to the .rs printer
  thunks_ctx,                 \* Context thunks_ctx of the last loop turn
  calls,                      \* Open and Emit calls of the pass, in call order
  opened,                     \* generator_context->Open calls, in call order
  outfile,                    \* what was printed to the .rs output
  thunks_cc,                  \* what was printed to the .pb.thunks.cc output
  files_to_visit,             \* worklist of EmitPublicImports
  visited,                    \* the files popped from the worklist so far
  revisited,                  \* some file was popped from the worklist twice
  crate_lookup_missed,        \* GetCrateName was asked for an unmapped file
  i,                          \* loop index of the per-type loops
  result,                     \* what Generate returned: "true", "false", "none" while it runs
  error                       \* *error

vars == <<file, parameter, parsed_files, deps, pc, opts, files_in_current_crate,
          import_path_to_crate_name, modules, ctx_without_printer, ctx,
          thunks_ctx, calls, opened, outfile, thunks_cc,
          files_to_visit, visited, revisited, crate_lookup_missed, i, result, error>>

inputs == <<file, parameter, parsed_files, deps>>

----------------------------------------------------------------------------
(* Bounds of the model. *)

\* Most items the .rs output may hold before the public-import loop is cut off
\* (the loop does not end on a cyclic import graph).
MaxOut == 16

\* Most import edges in the whole descriptor graph.
MaxEdges == 3

\* Most files the worklist may hold before the public-import loop is cut off.
MaxStack == 3

----------------------------------------------------------------------------
(* The schema: three files, the third one a known feature proto. *)

FeatureProto == "google/protobuf/cpp_features.proto"

Files == {"a.proto", "b.proto", FeatureProto}

\* A fourth file, b.protodevel: it imports nothing, nothing imports it, and it
\* only ever appears as a sibling in the unit.
TwinProto == "b.protodevel"

\* FileDescriptor::message_type(i), 0-based in the code, 1-based here.
message_type ==
  [f \in Files |->
     CASE f = "a.proto" -> <<"a.M1", "a.M2">>
       [] f = "b.proto" -> <<"b.M1">>
       [] OTHER         -> <<"pb.CppFeatures">>]

\* FileDescriptor::enum_type(i).
enum_type ==
  [f \in Files |->
     CASE f = "a.proto" -> <<"a.E1", "a.E2">>
       [] f = "b.proto" -> <<"b.E1">>
       [] OTHER         -> <<>>]

Range(s) == {s[k] : k \in DOMAIN s}

\* FileDescriptor::dependency(i): every import of f, public or not.
dependency(f) == [k \in DOMAIN deps[f] |-> deps[f][k].file]

IsPublicDep(d) == d.public

\* FileDescriptor::public_dependency(i): the imports of f marked `public`,
\* in import order.
public_dependency(f) ==
  LET pub == SelectSeq(deps[f], IsPublicDep)
  IN  [k \in DOMAIN pub |-> pub[k].file]

----------------------------------------------------------------------------
(* Collaborators of generator.cc that live in other files of the compiler. *)

\* absl::StatusOr of a failed call: `message` is status().message().
Failed(msg) ==
  [ok |-> FALSE, message |-> msg, kernel |-> "", strip_nonfunctional_codegen |-> FALSE,
   mapping_file |-> [readable |-> FALSE, entries |-> {}]]

UnknownKernel == "Unknown kernel type"
MappingUnreadable == "Couldn't open crate mapping file"

\* Options::Parse(parameter): the kernel must be `cpp` or `upb`.
Parse(p) ==
  IF p.kernel \in {"cpp", "upb"}
    THEN [ok |-> TRUE, message |-> "", kernel |-> p.kernel,
          strip_nonfunctional_codegen |-> p.strip,
          mapping_file |-> p.mapping_file]
    ELSE Failed(UnknownKernel)

\* Name of the crate that owns a .proto file, as the mapping file records it.
CrateOf(f) ==
  CASE f = "a.proto" -> "crate_a"
    [] f = "b.proto" -> "crate_b"
    [] OTHER         -> "protobuf"

NoMap == [ok |-> FALSE, message |-> "", map |-> <<>>]

\* GetImportPathToCrateNameMap(&opts): import path -> crate name, read from
\* the mapping file the options name.
GetImportPathToCrateNameMap(o) ==
  IF o.mapping_file.readable
    THEN [ok |-> TRUE, message |-> "",
          map |-> [f \in o.mapping_file.entries |-> CrateOf(f)]]
    ELSE [ok |-> FALSE, message |-> MappingUnreadable, map |-> <<>>]

\* Context::is_cpp().
is_cpp == opts.kernel = "cpp"

\* RustGeneratorContext::is_file_in_current_crate.
is_file_in_current_crate(f) == f \in Range(files_in_current_crate)

\* RustGeneratorContext::primary_file.
primary_file == files_in_current_crate[1]

\* RustInternalModuleName: the file name without `.proto` or `.protodevel`,
\* `_` doubled and `/` written `_s`.
RustInternalModuleName(f) ==
  CASE f = "a.proto" -> "a"
    [] f = "b.proto" -> "b"
    [] f = TwinProto -> "b"
    [] OTHER         -> "google_sprotobuf_scpp__features"

\* GetRsFile / GetThunkCcFile / GetHeaderFile: the file name with its
\* extension replaced.
GetRsFile(f) == [file |-> f, ext |-> IF is_cpp THEN ".c.pb.rs" ELSE ".u.pb.rs"]
GetThunkCcFile(f) == [file |-> f, ext |-> ".pb.thunks.cc"]
GetHeaderFile(f) == [file |-> f, ext |-> ".proto.h"]

\* IsKnownFeatureProto(name).
IsKnownFeatureProto(f) == f = FeatureProto

LookupError == "<LookupError>"

\* GetCrateName(ctx, dep): the crate of a file outside the current crate;
\* a path absent from the mapping is a lookup error.
GetCrateName(dep) ==
  IF dep \in DOMAIN import_path_to_crate_name.map
    THEN import_path_to_crate_name.map[dep]
    ELSE LookupError

\* RsTypePath(ctx, type): the crate of the type's file joined with the type.
RsTypePath(dep, type) == [crate |-> GetCrateName(dep), type |-> type]

\* RustGeneratorContext(&files_in_current_crate, &import_path_to_crate_name).
RustGeneratorContext(crate, mapping) ==
  [files_in_current_crate |-> crate, import_path_to_crate_name |-> mapping]

\* Context(opts, rust_generator_context, printer, modules).
Context(o, rgc, printer, mods) ==
  [opts |-> o, rust_generator_context |-> rgc, printer |-> printer, modules |-> mods]

\* A Context that has not been constructed yet.
NoContext == Context(Failed(""), RustGeneratorContext(<<>>, <<>>), "none", <<>>)

\* Context::WithPrinter(printer): the same context bound to another printer.
WithPrinter(c, printer) ==
  Context(c.opts, c.rust_generator_context, printer, c.modules)

\* A call on the generator context or on a printer.
Call(to, item) == [to |-> to, item |-> item]

\* generator_context->Open(path).
OpenCall(path) == Call("generator_context", [kind |-> "open", path |-> path])

\* One Emit or PrintRaw call on a printer per statement of `items`.
Emits(printer, items) == [k \in DOMAIN items |-> Call(printer, items[k])]

----------------------------------------------------------------------------
(* What the printers receive: one record per emitted statement. *)

Suffixes == <<"", "View", "Mut">>

\* The three `pub use` statements of message k of dep.
MsgUse(dep, k) ==
  [s \in 1..3 |-> [kind |-> "use", file |-> dep,
                   path |-> RsTypePath(dep, message_type[dep][k]),
                   suffix |-> Suffixes[s]]]

\* The `pub use` statement of enum k of dep.
EnumUse(dep, k) ==
  <<[kind |-> "use", file |-> dep,
     path |-> RsTypePath(dep, enum_type[dep][k]), suffix |-> ""]>>

RECURSIVE MsgUses(_, _)
MsgUses(dep, k) ==
  IF k > Len(message_type[dep]) THEN <<>>
  ELSE MsgUse(dep, k) \o MsgUses(dep, k + 1)

RECURSIVE EnumUses(_, _)
EnumUses(dep, k) ==
  IF k > Len(enum_type[dep]) THEN <<>>
  ELSE EnumUse(dep, k) \o EnumUses(dep, k + 1)

\* EmitPublicImportsForDepFile(ctx, dep): the statements it prints.
EmitPublicImportsForDepFile(dep) == MsgUses(dep, 1) \o EnumUses(dep, 1)

\* One submodule declaration: #[path] mod <mod_name>; pub use <mod_name>::*;
ModDecl(primary, src) ==
  [kind |-> "mod", file |-> src,
   file_path |-> [from |-> GetRsFile(primary), to |-> GetRsFile(src)],
   mod_name |-> RustInternalModuleName(src)]

\* DeclareSubmodulesForNonPrimarySrcs(ctx, primary_file, non_primary_srcs).
DeclareSubmodulesForNonPrimarySrcs(primary, non_primary_srcs) ==
  [k \in DOMAIN non_primary_srcs |-> ModDecl(primary, non_primary_srcs[k])]

Include(h) == [kind |-> "include", header |-> h]

SupportHeaders ==
  << Include("google/protobuf/map.h"),
     Include("google/protobuf/repeated_field.h"),
     Include("google/protobuf/repeated_ptr_field.h"),
     Include("rust/cpp_kernel/serialized_data.h"),
     Include("rust/cpp_kernel/strings.h") >>

\* The proto_deps_h callback dropping feature protos whatever the options say.
RECURSIVE ProtoDepsHAlwaysStripped(_, _)
ProtoDepsHAlwaysStripped(f, k) ==
  IF k > Len(dependency(f)) THEN <<>>
  ELSE IF IsKnownFeatureProto(dependency(f)[k])
         THEN ProtoDepsHAlwaysStripped(f, k + 1)
         ELSE <<Include(GetHeaderFile(dependency(f)[k]))>>
                \o ProtoDepsHAlwaysStripped(f, k + 1)

\* The proto_deps_h callback: one #include per import of f from the k-th on,
\* feature protos left out when strip_nonfunctional_codegen is set.
RECURSIVE ProtoDepsH(_, _)
ProtoDepsH(f, k) ==
  IF k > Len(dependency(f)) THEN <<>>
  ELSE IF opts.strip_nonfunctional_codegen /\ IsKnownFeatureProto(dependency(f)[k])
         THEN ProtoDepsH(f, k + 1)
         ELSE <<Include(GetHeaderFile(dependency(f)[k]))>> \o ProtoDepsH(f, k + 1)

\* The text of the thunks header.
ThunksHeader(f) ==
  <<Include(GetHeaderFile(f))>> \o ProtoDepsH(f, 1) \o SupportHeaders

----------------------------------------------------------------------------
(* The inputs of a pass. *)

\* Sequences without repetition over S.
DistinctSeqs(S) ==
  UNION {{s \in [1..n -> S] : \A x, y \in 1..n : x # y => s[x] # s[y]} :
         n \in 0..Cardinality(S)}

\* Import lists a file f may have: no file twice, never f itself, each
\* import public or not.
DepLists ==
  [f \in Files |->
     UNION {{[k \in DOMAIN s |-> [file |-> s[k], public |-> t[k]]] :
               t \in [DOMAIN s -> BOOLEAN]} :
            s \in DistinctSeqs(Files \ {f})}]

\* The import graphs: at most MaxEdges imports in all.  Import cycles are
\* included, EmitPublicImports makes no assumption on the graph it walks;
\* InitAcyclic below keeps the graphs the descriptor pool can build.
Graphs ==
  {d \in [Files -> UNION {DepLists[f] : f \in Files}] :
     /\ \A f \in Files : d[f] \in DepLists[f]
     /\ Len(d["a.proto"]) + Len(d["b.proto"]) + Len(d[FeatureProto]) <= MaxEdges}

\* The file handed to Generate: a.proto, at any position of the unit; the other
\* two files are its imports and its siblings.
GeneratedFiles == {"a.proto"}

MappingFiles ==
  {[readable |-> FALSE, entries |-> {}]} \cup
  {[readable |-> TRUE, entries |-> e] : e \in {Files} \cup {Files \ {f} : f \in Files}}

Parameters ==
  [kernel : {"cpp", "upb", "neither"}, strip : BOOLEAN, mapping_file : MappingFiles]

\* The compilation units: the files of the schema in any order.
Units == DistinctSeqs(Files)

\* The units of at most three files that hold b.protodevel.
TwinUnits ==
  {u \in DistinctSeqs(Files \cup {TwinProto}) : Len(u) <= 3 /\ TwinProto \in Range(u)}

\* The state Generate is entered in, for a unit drawn from `units`.
Start(units) ==
  /\ file \in GeneratedFiles
  /\ parameter \in Parameters
  /\ parsed_files \in {u \in units : file \in Range(u)}
  /\ deps \in Graphs
  /\ pc = "start"
  /\ opts = Failed("")
  /\ files_in_current_crate = <<>>
  /\ import_path_to_crate_name = NoMap
  /\ modules = <<>>
  /\ ctx_without_printer = NoContext
  /\ ctx = NoContext
  /\ thunks_ctx = NoContext
  /\ calls = <<>>
  /\ opened = <<>>
  /\ outfile = <<>>
  /\ thunks_cc = <<>>
  /\ files_to_visit = <<>>
  /\ visited = {}
  /\ revisited = FALSE
  /\ crate_lookup_missed = FALSE
  /\ i = 0
  /\ result = "none"
  /\ error = ""

Init == Start(Units)

\* The passes over a unit that holds b.protodevel.
InitTwin == Start(TwinUnits)

----------------------------------------------------------------------------
(* Generate, step by step. *)

Newline == [kind |-> "nl"]

\* Lines 123-127: parse the options; a parse error ends the pass.
ParseOptions ==
  /\ pc = "start"
  /\ opts' = Parse(parameter)
  /\ IF ~opts'.ok
       THEN /\ error' = opts'.message
            /\ result' = "false"
            /\ pc' = "done"
       ELSE /\ pc' = "crate"
            /\ UNCHANGED <<error, result>>
  /\ UNCHANGED <<inputs, files_in_current_crate, import_path_to_crate_name,
                 modules, ctx_without_printer, ctx, thunks_ctx, calls, opened,
                 outfile, thunks_cc, files_to_visit, visited,
                 revisited, crate_lookup_missed, i>>

\* Line 135 reading the status of opts, as line 125 does.
OptionsStatusMessage(o, m) == o.message

\* Line 135: the message reported when the crate mapping cannot be loaded.
CrateMappingError(o, m) == m.message

\* Lines 142-146 without the test of line 143: every file in a module.
ModulesOfAnyFile(f, crate) == <<RustInternalModuleName(f)>>

\* Lines 142-146: the module path of the file's generated code.
ModulesOf(f, crate) ==
  IF f # crate[1] THEN <<RustInternalModuleName(f)>> ELSE <<>>

\* Lines 129-148: list the files of the crate, load the crate mapping (an
\* error ends the pass) and build the context.
LoadCrate ==
  /\ pc = "crate"
  /\ files_in_current_crate' = parsed_files
  /\ import_path_to_crate_name' = GetImportPathToCrateNameMap(opts)
  /\ IF ~import_path_to_crate_name'.ok
       THEN /\ error' = CrateMappingError(opts, import_path_to_crate_name')
            /\ result' = "false"
            /\ pc' = "done"
            /\ UNCHANGED <<modules, ctx_without_printer>>
       ELSE /\ modules' = ModulesOf(file, files_in_current_crate')
            /\ ctx_without_printer' =
                 Context(opts,
                         RustGeneratorContext(files_in_current_crate',
                                              import_path_to_crate_name'.map),
                         "nullptr", modules')
            /\ pc' = "open"
            /\ UNCHANGED <<error, result>>
  /\ UNCHANGED <<inputs, opts, ctx, thunks_ctx, calls, opened, outfile, thunks_cc,
                 files_to_visit, visited, revisited, crate_lookup_missed, i>>

\* The blocks of lines 150-210 with the thunks block ahead of the submodules.
StepsThunksFirst == <<"open", "thunks", "submodules", "call_imports">>

\* The blocks of lines 150-210, in the order Generate runs them: open the .rs
\* output (150-165), declare the submodules (167-174), open the thunks
\* (176-208), call EmitPublicImports (210).
Steps == <<"open", "submodules", "thunks", "call_imports">>

\* The block that follows block s.
StepAfter(s) == Steps[(CHOOSE k \in DOMAIN Steps : Steps[k] = s) + 1]

\* Lines 150-165: open the .rs output and bind the printer.
OpenOutfile ==
  /\ pc = "open"
  /\ opened' = Append(opened, GetRsFile(file))
  /\ calls' = Append(calls, OpenCall(GetRsFile(file)))
  /\ ctx' = WithPrinter(ctx_without_printer, "printer")
  /\ pc' = StepAfter("open")
  /\ UNCHANGED <<inputs, opts, files_in_current_crate, import_path_to_crate_name,
                 modules, ctx_without_printer, thunks_ctx, outfile, thunks_cc,
                 files_to_visit, visited, revisited,
                 crate_lookup_missed, i, result, error>>

\* The test of line 171 left out: every file declares the submodules.
GeneratingAnyFile == TRUE

\* Line 171: is the primary file being generated?
GeneratingPrimary == file = primary_file

\* Lines 167-174: the primary file declares every other file of the crate.
DeclareSubmodules ==
  /\ pc = "submodules"
  /\ LET printed == IF GeneratingPrimary
                      THEN DeclareSubmodulesForNonPrimarySrcs(
                             file, Tail(files_in_current_crate))
                      ELSE <<>>
     IN  /\ outfile' = outfile \o printed
         /\ calls' = calls \o Emits("printer", printed)
  /\ pc' = StepAfter("submodules")
  /\ UNCHANGED <<inputs, opts, files_in_current_crate, import_path_to_crate_name,
                 modules, ctx_without_printer, ctx, thunks_ctx, opened, thunks_cc,
                 files_to_visit, visited, revisited,
                 crate_lookup_missed, i, result, error>>

\* Lines 176-208: with the cpp kernel, open the thunks output and print its
\* header.
OpenThunks ==
  /\ pc = "thunks"
  /\ IF is_cpp
       THEN /\ opened' = Append(opened, GetThunkCcFile(file))
            /\ thunks_cc' = thunks_cc \o ThunksHeader(file)
            /\ calls' = Append(calls, OpenCall(GetThunkCcFile(file)))
                           \o Emits("thunks_printer", ThunksHeader(file))
       ELSE UNCHANGED <<opened, thunks_cc, calls>>
  /\ pc' = StepAfter("thunks")
  /\ UNCHANGED <<inputs, opts, files_in_current_crate, import_path_to_crate_name,
                 modules, ctx_without_printer, ctx, thunks_ctx, outfile,
                 files_to_visit, visited, revisited,
                 crate_lookup_missed, i, result, error>>

\* Lines 210 and 78: EmitPublicImports starts with the file itself to visit.
EmitPublicImportsBegin ==
  /\ pc = "call_imports"
  /\ files_to_visit' = <<file>>
  /\ pc' = "imports"
  /\ UNCHANGED <<inputs, opts, files_in_current_crate, import_path_to_crate_name,
                 modules, ctx_without_printer, ctx, thunks_ctx, calls, opened,
                 outfile, thunks_cc, visited, revisited,
                 crate_lookup_missed, i, result, error>>

\* The check of line 83 left out: every visited file is re-exported.
ReexportsEveryFile(f) == TRUE

\* Line 83: are the types of f re-exported?
ReexportsTypesOf(f) == ~is_file_in_current_crate(f)

\* Lines 87-89 run for the file under generation only: its public imports
\* are visited, theirs are not.
PushedDirectOnly(f) == IF f = file THEN public_dependency(f) ELSE <<>>

\* Lines 87-89 walking dependency(i) instead of public_dependency(i).
PushedEveryImport(f) == dependency(f)

\* Lines 87-89: the files pushed after visiting f.
PushedAfter(f) == public_dependency(f)

\* Lines 79-90: one turn of the loop: pop the last file, re-export its types
\* when it is outside the crate, push its public imports.
VisitFile ==
  /\ pc = "imports"
  /\ files_to_visit # <<>>
  /\ LET f == files_to_visit[Len(files_to_visit)]
         rest == SubSeq(files_to_visit, 1, Len(files_to_visit) - 1)
         printed == IF ReexportsTypesOf(f)
                      THEN EmitPublicImportsForDepFile(f) ELSE <<>>
     IN  /\ Len(outfile) + Len(printed) <= MaxOut
         /\ Len(rest) + Len(PushedAfter(f)) <= MaxStack
         /\ outfile' = outfile \o printed
         /\ calls' = calls \o Emits("printer", printed)
         /\ files_to_visit' = rest \o PushedAfter(f)
         /\ visited' = visited \cup {f}
         /\ revisited' = (revisited \/ f \in visited)
         /\ crate_lookup_missed' =
              (crate_lookup_missed \/
                 (ReexportsTypesOf(f) /\ GetCrateName(f) = LookupError))
  /\ UNCHANGED <<inputs, pc, opts, files_in_current_crate,
                 import_path_to_crate_name, modules, ctx_without_printer, ctx,
                 thunks_ctx, opened, thunks_cc, i, result, error>>

\* The loop a pass is in after k messages have been generated.
TypeLoop(k) == IF k < Len(message_type[file]) THEN "messages" ELSE "enums"

\* Lines 79 and 212: the worklist is empty, EmitPublicImports returns and the
\* message loop starts.
EmitPublicImportsEnd ==
  /\ pc = "imports"
  /\ files_to_visit = <<>>
  /\ pc' = TypeLoop(0)
  /\ i' = 0
  /\ UNCHANGED <<inputs, opts, files_in_current_crate, import_path_to_crate_name,
                 modules, ctx_without_printer, ctx, thunks_ctx, calls, opened,
                 outfile, thunks_cc, files_to_visit, visited,
                 revisited, crate_lookup_missed, result, error>>

\* Lines 218-226 without the is_cpp test.
MessageThunksAnyKernel(msg) ==
  <<[kind |-> "marker", type |-> msg], [kind |-> "thunks", type |-> msg], Newline>>

\* Lines 218-226: what the thunks output receives for a message.
MessageThunks(msg) ==
  IF is_cpp
    THEN <<[kind |-> "marker", type |-> msg], [kind |-> "thunks", type |-> msg], Newline>>
    ELSE <<>>

\* Lines 234-241 with the marker of lines 237-239 forgotten.
EnumThunksNoMarker(enum) == IF is_cpp THEN <<Newline>> ELSE <<>>

\* Lines 234-241: what the thunks output receives for an enum.
EnumThunks(enum) ==
  IF is_cpp THEN <<[kind |-> "marker", type |-> enum], Newline>> ELSE <<>>

\* Lines 215-216: what the .rs output receives for a message.
MessageRs(msg) == <<[kind |-> "message", type |-> msg], Newline>>

\* Lines 231-232: what the .rs output receives for an enum.
EnumRs(enum) == <<[kind |-> "enum", type |-> enum], Newline>>

\* Lines 215-225 with the thunks of the message printed ahead of its
\* definition.
MessageCallsThunksFirst(msg) ==
  Emits("thunks_printer", MessageThunks(msg)) \o Emits("printer", MessageRs(msg))

\* Lines 215-225: the calls of one turn of the message loop.
MessageCalls(msg) ==
  Emits("printer", MessageRs(msg)) \o Emits("thunks_printer", MessageThunks(msg))

\* Lines 231-240: the calls of one turn of the enum loop.
EnumCalls(enum) ==
  Emits("printer", EnumRs(enum)) \o Emits("thunks_printer", EnumThunks(enum))

\* Lines 219 and 235 building the thunks context anew, without the modules.
FreshThunksContext(c) ==
  Context(c.opts, c.rust_generator_context, "thunks_printer", <<>>)

\* Lines 219 and 235: thunks_ctx = ctx.WithPrinter(thunks_printer.get()).
ThunksContext(c) == WithPrinter(c, "thunks_printer")

\* Lines 212-227: one turn of the message loop.
GenerateMessage ==
  /\ pc = "messages"
  /\ LET msg == message_type[file][i + 1]
     IN  /\ outfile' = outfile \o MessageRs(msg)
         /\ thunks_cc' = thunks_cc \o MessageThunks(msg)
         /\ calls' = calls \o MessageCalls(msg)
  /\ thunks_ctx' = IF is_cpp THEN ThunksContext(ctx) ELSE thunks_ctx
  /\ pc' = TypeLoop(i + 1)
  /\ i' = IF TypeLoop(i + 1) = "messages" THEN i + 1 ELSE 0
  /\ UNCHANGED <<inputs, opts, files_in_current_crate, import_path_to_crate_name,
                 modules, ctx_without_printer, ctx, opened, files_to_visit,
                 visited, revisited, crate_lookup_missed, result, error>>

\* Lines 229-242: one turn of the enum loop.
GenerateEnum ==
  /\ pc = "enums"
  /\ i < Len(enum_type[file])
  /\ LET enum == enum_type[file][i + 1]
     IN  /\ outfile' = outfile \o EnumRs(enum)
         /\ thunks_cc' = thunks_cc \o EnumThunks(enum)
         /\ calls' = calls \o EnumCalls(enum)
  /\ thunks_ctx' = IF is_cpp THEN ThunksContext(ctx) ELSE thunks_ctx
  /\ i' = i + 1
  /\ UNCHANGED <<inputs, pc, opts, files_in_current_crate,
                 import_path_to_crate_name, modules, ctx_without_printer, ctx,
                 opened, files_to_visit, visited, revisited,
                 crate_lookup_missed, result, error>>

\* Line 244: the pass succeeds.
ReturnTrue ==
  /\ pc = "enums"
  /\ i = Len(enum_type[file])
  /\ result' = "true"
  /\ pc' = "done"
  /\ UNCHANGED <<inputs, opts, files_in_current_crate, import_path_to_crate_name,
                 modules, ctx_without_printer, ctx, thunks_ctx, calls, opened,
                 outfile, thunks_cc, files_to_visit, visited,
                 revisited, crate_lookup_missed, i, error>>

Next ==
  \/ ParseOptions
  \/ LoadCrate
  \/ OpenOutfile
  \/ DeclareSubmodules
  \/ OpenThunks
  \/ EmitPublicImportsBegin
  \/ VisitFile
  \/ EmitPublicImportsEnd
  \/ GenerateMessage
  \/ GenerateEnum
  \/ ReturnTrue

Spec == Init /\ [][Next]_vars

\* Files f imports, publicly or not.
Imports(d, f) == {d[f][k].file : k \in DOMAIN d[f]}

\* Files f imports publicly.
PublicImports(d, f) == {d[f][k].file : k \in {x \in DOMAIN d[f] : d[f][x].public}}

\* Files reachable from the set S by at most n import edges.
RECURSIVE ImportReach(_, _, _)
ImportReach(d, S, n) ==
  IF n = 0 THEN S
  ELSE ImportReach(d, S \cup UNION {Imports(d, f) : f \in S}, n - 1)

\* No file imports itself, directly or not: what the descriptor pool accepts.
Acyclic(d) ==
  \A f \in Files : f \notin ImportReach(d, Imports(d, f), Cardinality(Files))

InitAcyclic == Init /\ Acyclic(deps)

\* The passes over import graphs the descriptor pool accepts.
SpecAcyclic == InitAcyclic /\ [][Next]_vars

\* The passes over the units with b.protodevel among the siblings.
SpecTwin == InitTwin /\ [][Next]_vars

\* The pass is never suspended: a step that can be taken is taken.
FairSpec == Spec /\ WF_vars(Next)

----------------------------------------------------------------------------
(* Properties of the public-import step. *)

\* The files of the compilation unit.
CurrentCrate == Range(parsed_files)

\* Files reachable from the set S by at most n public import edges.
RECURSIVE PublicReach(_, _)
PublicReach(S, n) ==
  IF n = 0 THEN S
  ELSE PublicReach(S \cup UNION {PublicImports(deps, f) : f \in S}, n - 1)

\* Files reachable from the file under generation by one or more public
\* import edges.
PublicClosure == PublicReach(PublicImports(deps, file), Cardinality(Files))

IsUse(item) == item.kind = "use"

\* Number of `pub use` statements in the .rs output for type t of file f
\* with suffix s.
UseCount(f, t, s) ==
  Cardinality({k \in DOMAIN outfile :
                 /\ outfile[k].kind = "use"
                 /\ outfile[k].file = f
                 /\ outfile[k].path.type = t
                 /\ outfile[k].suffix = s})

ImportsEmitted == pc \in {"messages", "enums"} \/ (pc = "done" /\ result = "true")

Succeeded == pc = "done" /\ result = "true"

\* C1: Generate never prints a `pub use` for a message or enum of a file that
\* belongs to the current compilation unit, whatever the public import graph.
C1_NoReexportOfSameCrate ==
  \A k \in DOMAIN outfile :
    outfile[k].kind = "use" => outfile[k].file \notin CurrentCrate

\* A finished pass whose traversal went through another file of the unit and
\* also re-exported a file outside it.
C1_Witness ==
  /\ Succeeded
  /\ \E g \in visited : g # file /\ g \in CurrentCrate
  /\ \E k \in DOMAIN outfile : outfile[k].kind = "use"

\* C2: once the public imports are emitted, the .rs output holds, for every
\* file E outside the unit that a chain of one or more public imports reaches
\* from the file under generation, the three `pub use` statements of every
\* message of E and the one `pub use` statement of every enum of E.
C2_TransitiveReexport ==
  ImportsEmitted =>
    \A E \in PublicClosure \ CurrentCrate :
      /\ \A m \in DOMAIN message_type[E] : \A s \in 1..3 :
           UseCount(E, message_type[E][m], Suffixes[s]) >= 1
      /\ \A e \in DOMAIN enum_type[E] :
           UseCount(E, enum_type[E][e], "") >= 1

\* A finished pass that re-exported a file it does not import itself.
C2_Witness ==
  /\ Succeeded
  /\ \E E \in PublicClosure \ CurrentCrate :
       /\ E \notin Imports(deps, file)
       /\ UseCount(E, message_type[E][1], "Mut") >= 1

\* C3: no `pub use` is printed for a type of a file that public import edges
\* alone do not reach from the file under generation.
C3_PrivateEdgeEndsClosure ==
  \A k \in DOMAIN outfile :
    outfile[k].kind = "use" => outfile[k].file \in PublicClosure

\* A finished pass over a file that privately imports D, where D publicly
\* imports a file E outside the unit that no public path reaches.
C3_Witness ==
  /\ Succeeded
  /\ \E D \in Imports(deps, file) \ PublicImports(deps, file) :
       \E E \in PublicImports(deps, D) :
         /\ E \notin CurrentCrate
         /\ E \notin PublicClosure
         /\ UseCount(E, message_type[E][1], "") = 0

\* C4: the traversal never pops a file it has already visited, and no
\* `pub use` statement is printed twice in one .rs output.
C4_VisitedOnce ==
  /\ ~revisited
  /\ \A x, y \in DOMAIN outfile :
       (outfile[x].kind = "use" /\ outfile[x] = outfile[y]) => x = y

\* The model's bounds stop the traversal here: the next visit would outgrow
\* MaxOut or MaxStack.
CutShort ==
  /\ pc = "imports"
  /\ files_to_visit # <<>>
  /\ ~ENABLED VisitFile

C6_LookupMissFails ==
  (pc = "done" /\ crate_lookup_missed) =>
    /\ result = "false"
    /\ error # ""
    /\ outfile = <<>>
    /\ thunks_cc = <<>>

----------------------------------------------------------------------------
(* Properties of the orchestration. *)

IsMod(item) == item.kind = "mod"

IsInclude(item) == item.kind = "include"

SubmodulesDone ==
  pc \in {"thunks", "call_imports", "imports", "messages", "enums"} \/ Succeeded

\* C7: the .rs output holds submodule declarations exactly when the file under
\* generation is the first file of the unit; it then holds one declaration
\* per other file of the unit, in unit order, and none for the file itself.
C7_SubmodulesIffPrimary ==
  LET mods == SelectSeq(outfile, IsMod)
  IN  IF SubmodulesDone /\ file = parsed_files[1]
        THEN /\ Len(mods) = Len(parsed_files) - 1
             /\ \A k \in DOMAIN mods :
                  /\ mods[k].file = parsed_files[k + 1]
                  /\ mods[k].file # file
                  /\ mods[k].mod_name = RustInternalModuleName(parsed_files[k + 1])
        ELSE mods = <<>>

\* A finished pass over the primary file of a unit of three files.
C7_Witness ==
  /\ Succeeded
  /\ file = parsed_files[1]
  /\ Len(parsed_files) = 3
  /\ Len(SelectSeq(outfile, IsMod)) = 2

\* C8: a pass that returned failure reports the message of the status that
\* failed, has opened no output and has printed nothing.
C8_FailureOpensNothing ==
  result = "false" =>
    /\ pc = "done"
    /\ error = IF Parse(parameter).ok
                 THEN GetImportPathToCrateNameMap(Parse(parameter)).message
                 ELSE Parse(parameter).message
    /\ error # ""
    /\ opened = <<>>
    /\ outfile = <<>>
    /\ thunks_cc = <<>>

\* A pass that failed because the crate mapping could not be loaded.
C8_Witness ==
  /\ pc = "done"
  /\ result = "false"
  /\ opts.ok
  /\ ~import_path_to_crate_name.ok

\* C9: with the upb kernel nothing is ever printed to the thunks output, no
\* thunks file is opened, and a finished pass has opened exactly one output.
C9_NoThunksWithUpb ==
  parameter.kernel = "upb" =>
    /\ thunks_cc = <<>>
    /\ \A k \in DOMAIN opened : opened[k] = GetRsFile(file)
    /\ Len(opened) <= 1
    /\ Succeeded => Len(opened) = 1

\* A finished upb pass over a file with messages and enums.
C9_Witness ==
  /\ Succeeded
  /\ parameter.kernel = "upb"
  /\ \E k \in DOMAIN outfile : outfile[k].kind = "message"
  /\ \E k \in DOMAIN outfile : outfile[k].kind = "enum"

\* The headers the thunks output must start with.
ExpectedHeader ==
  LET Kept(d) == ~(parameter.strip /\ d.file = FeatureProto)
      kept == SelectSeq(deps[file], Kept)
  IN  <<Include(GetHeaderFile(file))>>
        \o [k \in DOMAIN kept |-> Include(GetHeaderFile(kept[k].file))]
        \o SupportHeaders

ThunksOpened ==
  pc \in {"call_imports", "imports", "messages", "enums"} \/ Succeeded

\* C10: with the cpp kernel the thunks output starts with the header of the
\* file, then the header of each import in import order (a feature proto left
\* out exactly when strip_nonfunctional_codegen is set), then the support
\* headers; no #include is printed anywhere else, and nothing is printed to
\* the thunks output before the header.
C10_ThunksHeader ==
  parameter.kernel = "cpp" =>
    IF ThunksOpened
      THEN /\ SelectSeq(thunks_cc, IsInclude) = ExpectedHeader
           /\ SubSeq(thunks_cc, 1, Len(ExpectedHeader)) = ExpectedHeader
      ELSE thunks_cc = <<>>

\* A finished cpp pass with stripping set over a file that imports a feature
\* proto and another file, and that has printed per-type thunks.
C10_Witness ==
  /\ Succeeded
  /\ parameter.kernel = "cpp"
  /\ parameter.strip
  /\ FeatureProto \in Imports(deps, file)
  /\ Len(deps[file]) >= 2
  /\ Len(thunks_cc) > Len(ExpectedHeader)

IsMarker(item) == item.kind = "marker"

\* The types of the markers printed to the thunks output, in print order.
MarkedTypes ==
  LET markers == SelectSeq(thunks_cc, IsMarker)
  IN  [k \in DOMAIN markers |-> markers[k].type]

\* C11: with the cpp kernel the thunks output of a finished pass holds exactly
\* one marker per message and per enum of the file and no other marker: the
\* messages in declaration order, then the enums in declaration order.
C11_OneMarkerPerType ==
  (Succeeded /\ parameter.kernel = "cpp") =>
    MarkedTypes = message_type[file] \o enum_type[file]

\* A finished cpp pass that printed the markers of two messages and two enums
\* of the file, and re-exported types of another file without marking them.
C11_Witness ==
  /\ Succeeded
  /\ parameter.kernel = "cpp"
  /\ Len(MarkedTypes) = 4
  /\ \E k \in DOMAIN outfile : outfile[k].kind = "use"

\* Two files of the unit other than its first file have the same submodule
\* identifier.
SubmoduleCollision ==
  \E x, y \in 2..Len(parsed_files) :
    /\ x # y
    /\ RustInternalModuleName(parsed_files[x]) = RustInternalModuleName(parsed_files[y])

\* C12: the .rs output never holds two submodule declarations with the same
\* module name, and a pass over the primary file of a unit in which two other
\* files have the same submodule identifier ends in failure with an error.
C12_CollisionFails ==
  LET mods == SelectSeq(outfile, IsMod)
  IN  /\ \A x, y \in DOMAIN mods : mods[x].mod_name = mods[y].mod_name => x = y
      /\ (pc = "done" /\ file = parsed_files[1] /\ SubmoduleCollision) =>
           (result = "false" /\ error # "")

IsOpenOf(c, path) == c.item.kind = "open" /\ c.item.path = path

\* The place of call c in the order the code runs its steps: .rs output
\* opened, submodules declared, thunks output opened, thunks header printed,
\* forwarding declarations printed, per-type emission.
StepOfCall(c) ==
  CASE c.item.kind = "mod" -> 2
    [] c.item.kind = "include" -> 4
    [] c.item.kind = "use" -> 5
    [] IsOpenOf(c, GetRsFile(file)) -> 1
    [] IsOpenOf(c, GetThunkCcFile(file)) -> 3
    [] OTHER -> 6

\* The place of call c in the order of steps in which the thunks output is
\* opened and given its header before the submodules are declared.
ClaimedStepOfCall(c) ==
  CASE c.item.kind = "include" -> 3
    [] c.item.kind = "mod" -> 4
    [] c.item.kind = "use" -> 5
    [] IsOpenOf(c, GetRsFile(file)) -> 1
    [] IsOpenOf(c, GetThunkCcFile(file)) -> 2
    [] OTHER -> 6

\* The .rs output holds one definition per message and per enum of the file.
AllTypesEmitted ==
  Cardinality({k \in DOMAIN outfile : outfile[k].kind \in {"message", "enum"}})
    = Len(message_type[file]) + Len(enum_type[file])

\* What every order of steps has in common: nothing is opened or printed
\* before the options and the crate mapping are resolved, the first call opens
\* the .rs output, the thunks output is opened with the cpp kernel only, and a
\* finished pass has emitted every type of the file.
StepsFramed ==
  /\ calls # <<>> =>
       /\ opts.ok
       /\ import_path_to_crate_name.ok
       /\ IsOpenOf(calls[1], GetRsFile(file))
  /\ (\E k \in DOMAIN calls : IsOpenOf(calls[k], GetThunkCcFile(file)))
       => parameter.kernel = "cpp"
  /\ Succeeded =>
       /\ AllTypesEmitted
       /\ parameter.kernel = "cpp" =>
            \E k \in DOMAIN calls : IsOpenOf(calls[k], GetThunkCcFile(file))

IsTypeCall(c) == c.item.kind \in {"message", "enum", "marker", "thunks"}

\* The per-type calls of the pass so far, in call order, each as
\* <<printer, kind, type>>.
TypeCalls ==
  LET made == SelectSeq(calls, IsTypeCall)
  IN  [k \in DOMAIN made |-> <<made[k].to, made[k].item.kind, made[k].item.type>>]

RECURSIVE Flatten(_)
Flatten(seqs) == IF seqs = <<>> THEN <<>> ELSE Head(seqs) \o Flatten(Tail(seqs))

\* The per-type calls in lock-step: per message in declaration order its
\* definition, then with the cpp kernel its marker and its thunks; then per
\* enum in declaration order its definition, then with the cpp kernel its
\* marker.
LockStepTypeCalls ==
  LET cpp == parameter.kernel = "cpp"
      OfMessage(m) ==
        << <<"printer", "message", m>> >> \o
        (IF cpp THEN << <<"thunks_printer", "marker", m>>,
                        <<"thunks_printer", "thunks", m>> >>
                ELSE <<>>)
      OfEnum(e) ==
        << <<"printer", "enum", e>> >> \o
        (IF cpp THEN << <<"thunks_printer", "marker", e>> >> ELSE <<>>)
  IN  Flatten([k \in DOMAIN message_type[file] |-> OfMessage(message_type[file][k])])
        \o Flatten([k \in DOMAIN enum_type[file] |-> OfEnum(enum_type[file][k])])

\* C14: the per-type calls made so far are always the first calls of the
\* lock-step sequence (one definition per message in declaration order, then
\* one per enum in declaration order; with the cpp kernel the marker, and for
\* a message the thunks, of a type come after its definition and before the
\* definition of the next type), and a finished pass has made all of them.
C14_LockStep ==
  LET made == TypeCalls
      due == LockStepTypeCalls
  IN  /\ Len(made) <= Len(due)
      /\ made = SubSeq(due, 1, Len(made))
      /\ Succeeded => made = due

\* A finished cpp pass that emitted two messages and two enums, each
\* followed by its calls on the thunks printer.
C14_Witness ==
  /\ Succeeded
  /\ parameter.kernel = "cpp"
  /\ Len(message_type[file]) = 2
  /\ Len(enum_type[file]) = 2
  /\ Len(TypeCalls) = 10

ContextsBuilt ==
  {c \in {ctx_without_printer, ctx, thunks_ctx} : c.printer # "none"}

\* C17: the module path of every context of the pass is empty exactly when
\* the file under generation is the first file of the unit; otherwise it is
\* the one-element path of the file's submodule identifier, the module name
\* of the `mod` declaration the first file of the unit prints for the file.
\* It is the same in every state of the pass in which a context exists.
C17_ModulePath ==
  \A c \in ContextsBuilt :
    /\ c.modules = modules
    /\ (c.modules = <<>>) <=> (file = parsed_files[1])
    /\ file # parsed_files[1] =>
         /\ c.modules = <<RustInternalModuleName(file)>>
         /\ c.modules = <<ModDecl(parsed_files[1], file).mod_name>>

\* A finished pass over a file that is not the first of its unit, with a
\* module path of one element in the context of the .rs output.
C17_Witness ==
  /\ Succeeded
  /\ file # parsed_files[1]
  /\ Len(ctx.modules) = 1

====
